---- MODULE Spec2Model ----
(***************************************************************************)
(* Place-name extraction (src/src/extraction/placename_extractor.py):      *)
(* the line normalizer clean_line_start, the candidate locator             *)
(* extract_valid_placename, the aggregation pass extract_from_directory,   *)
(* and the re-resolution validate_and_resolve with is_valid_placename.     *)
(*                                                                         *)
(* A string is a sequence of Unicode code points, so that the character    *)
(* classes of the regular expressions ([一-龥], \d, \s) and the literal      *)
(* token tables are the ones of the source.                                *)
(***************************************************************************)
EXTENDS Integers, Sequences, FiniteSets, TLC

(***************************************************************************)
(* Characters of the token tables, by code point.                          *)
(***************************************************************************)
\* characters first used by DYNASTIES (placename_extractor.py:19)
chHan == 28450        \* 漢
chWei == 39759        \* 魏
chJin == 26185        \* 晉
chSui == 38539        \* 隋
chTang == 21776       \* 唐
chSong == 23435       \* 宋
chYuan == 20803       \* 元
chMing == 26126       \* 明
chQing == 28165       \* 清
chQin == 31206        \* 秦
chQi == 40778         \* 齊
chLiang == 26753      \* 梁
chZhou == 21608       \* 周
chHou == 24460        \* 後
chBei == 21271        \* 北
\* characters first used by ADMIN_LEVELS (placename_extractor.py:20)
chJun == 37089        \* 郡
chZhou1 == 24030      \* 州
chFu == 24220         \* 府
chDao == 36947        \* 道
chLu == 36335         \* 路
\* characters first used by PREFIX_VERBS (placename_extractor.py:21)
chZhi == 32622        \* 置
chGai == 25913        \* 改
chFen == 20998        \* 分
chXi == 26512         \* 析
chYi == 31227         \* 移
chLi == 38584         \* 隸
chShu == 23660        \* 屬
chBing == 24182       \* 并
chYu == 26044         \* 於
chZai == 22312        \* 在
chBen == 26412        \* 本
chJiu == 33290        \* 舊
chJin1 == 20170       \* 今
chXun == 23563        \* 尋
chCi == 27492         \* 此
\* characters first used by STOP_START_WORDS (placename_extractor.py:22)
chJi == 21450         \* 及
chYu1 == 19982        \* 与
chZhi1 == 20043       \* 之
chQi1 == 20854        \* 其
chJiu1 == 26087       \* 旧
chCong == 20174       \* 从
chZhi2 == 33267       \* 至
chJie == 30028        \* 界
chYou == 26377        \* 有
chWei1 == 35859       \* 谓
\* characters first used by PLACE_SUFFIXES (placename_extractor.py:23)
chXian == 32291       \* 縣
chShan == 23665       \* 山
chShui == 27700       \* 水
chHe == 27827         \* 河
chChuan == 24029      \* 川
chYuan1 == 21407      \* 原
chGu == 35895         \* 谷
chCheng == 22478      \* 城
chGuan == 38364       \* 關
chJin2 == 27941       \* 津
chPo == 22369         \* 坡
chLing == 38517       \* 陵
chGong == 23470       \* 宮
chXi1 == 28330        \* 溪
chYan == 23721        \* 岩
chTan == 28525        \* 潭
\* characters first used by directional tokens (placename_extractor.py:98)
chNan == 21335        \* 南
chXi2 == 35199        \* 西
chDong == 19996       \* 东
chZhi3 == 27835       \* 治
\* separators and blanks of the literal strip sets (placename_extractor.py:46, 96, 138)
chComma == 65292      \* ，
chFullStop == 12290   \* 。
chSemicolon == 65307  \* ；
chSpace == 32         \* ASCII space

\* [一-龥], the character class of the two regular expressions (lines 50, 173)
IdeographFirst == 19968
IdeographLast == 40869
IsIdeograph(c) == c \in IdeographFirst..IdeographLast

\* \d of a str pattern: the Unicode decimal digits; the ASCII and the fullwidth
\* digits are the ones in range of the inputs used here
DecimalDigits == (48..57) \cup (65296..65305)

\* \s and str.strip(): the characters for which str.isspace() is true
Whitespace ==
    (9..13) \cup (28..32) \cup {133, 160, 5760} \cup (8192..8202)
       \cup {8232, 8233, 8239, 8287, 12288}

(***************************************************************************)
(* The class-level token tables, in list order                             *)
(***************************************************************************)
DYNASTIES ==
    << <<chHan>>, <<chWei>>, <<chJin>>, <<chSui>>, <<chTang>>, <<chSong>>,
       <<chYuan>>, <<chMing>>, <<chQing>>, <<chQin>>, <<chQi>>, <<chLiang>>,
       <<chZhou>>, <<chHou, chHan>>, <<chYuan, chWei>>, <<chBei, chQi>> >>

ADMIN_LEVELS == << <<chJun>>, <<chZhou1>>, <<chFu>>, <<chDao>>, <<chLu>> >>

PREFIX_VERBS ==
    << <<chZhi>>, <<chGai>>, <<chFen>>, <<chXi>>, <<chYi>>, <<chLi>>, <<chShu>>,
       <<chBing>>, <<chYu>>, <<chZai>>, <<chBen>>, <<chJiu>>, <<chJin1>>,
       <<chXun>>, <<chCi>> >>

STOP_START_WORDS ==
    << <<chZai>>, <<chJi>>, <<chYu1>>, <<chZhi1>>, <<chQi1>>, <<chCi>>,
       <<chJiu1>>, <<chCong>>, <<chZhi2>>, <<chJie>>, <<chYou>>, <<chWei1>> >>

PLACE_SUFFIXES ==
    << <<chXian>>, <<chZhou1>>, <<chJun>>, <<chFu>>, <<chDao>>, <<chShan>>,
       <<chShui>>, <<chHe>>, <<chChuan>>, <<chYuan1>>, <<chGu>>, <<chCheng>>,
       <<chGuan>>, <<chJin2>>, <<chPo>>, <<chLing>>, <<chGong>>, <<chXi1>>,
       <<chYan>>, <<chTan>> >>

\* the literal list of line 98
DIRECTION_WORDS ==
    << <<chNan>>, <<chBei>>, <<chXi2>>, <<chDong>>, <<chZhi3>>, <<chJie>> >>

\* lstrip(" ；，。") of lines 46, 52, 57 and lstrip("，。； ") of line 138
StripChars == {chSpace, chSemicolon, chComma, chFullStop}

\* ^[，。；\s] of line 96
SeparatorStart == {chComma, chFullStop, chSemicolon} \cup Whitespace

(***************************************************************************)
(* Python's str operations on sequences of code points.  Indices are       *)
(* 0-based where Python's are.                                             *)
(***************************************************************************)
\* None of Optional[str]: no string, since no code point is negative
None == << -1 >>

startswith(s, p) == Len(p) <= Len(s) /\ SubSeq(s, 1, Len(p)) = p

endswith(s, p) == Len(p) <= Len(s) /\ SubSeq(s, Len(s) - Len(p) + 1, Len(s)) = p

\* s[k:] for k >= 0
SliceFrom(s, k) == SubSeq(s, k + 1, Len(s))

\* s[:k] for k >= 0
SliceTo(s, k) == SubSeq(s, 1, IF k < Len(s) THEN k ELSE Len(s))

\* s.lstrip(chars): s from its first character that is not in chars
lstrip(s, chars) ==
    IF \A i \in 1..Len(s) : s[i] \in chars
    THEN << >>
    ELSE SubSeq(s, CHOOSE i \in 1..Len(s) :
                       s[i] \notin chars /\ \A j \in 1..(i - 1) : s[j] \in chars,
                Len(s))

\* s.rstrip(chars): s up to its last character that is not in chars
rstrip(s, chars) ==
    IF \A i \in 1..Len(s) : s[i] \in chars
    THEN << >>
    ELSE SubSeq(s, 1, CHOOSE i \in 1..Len(s) :
                          s[i] \notin chars /\ \A j \in (i + 1)..Len(s) : s[j] \in chars)

\* str.strip() with no argument
strip(s) == rstrip(lstrip(s, Whitespace), Whitespace)

\* the positions (0-based) at which p occurs in s
Occurrences(s, p) ==
    {i \in 0..(Len(s) - Len(p)) : SubSeq(s, i + 1, i + Len(p)) = p}

\* p in s
contains(s, p) == Occurrences(s, p) # {}

\* s.find(p): the first occurrence, or -1
find(s, p) ==
    IF Occurrences(s, p) = {}
    THEN -1
    ELSE CHOOSE i \in Occurrences(s, p) : \A j \in Occurrences(s, p) : i <= j

\* any(s.startswith(w) for w in words)
StartsWithAny(s, words) == \E i \in 1..Len(words) : startswith(s, words[i])

\* any(s.endswith(w) for w in words)
EndsWithAny(s, words) == \E i \in 1..Len(words) : endswith(s, words[i])

(***************************************************************************)
(* clean_line_start                                                        *)
(***************************************************************************)
max_iterations == 10

\* line 34: re.sub(r"^\d+\s*", "", line).strip()
StripLineNumber(line) ==
    strip(IF line # << >> /\ Head(line) \in DecimalDigits
          THEN lstrip(lstrip(line, DecimalDigits), Whitespace)
          ELSE line)

\* lines 44-46 and 55-57: for each token in list order, if the line starts
\* with it, cut it and lstrip " ；，。"
RECURSIVE StripPrefixTokens(_, _, _)
StripPrefixTokens(line, tokens, i) ==
    IF i > Len(tokens)
    THEN line
    ELSE IF startswith(line, tokens[i])
         THEN LET cut == lstrip(SliceFrom(line, Len(tokens[i])), StripChars)
              IN  StripPrefixTokens(cut, tokens, i + 1)
         ELSE StripPrefixTokens(line, tokens, i + 1)

\* a pattern that matches nowhere
NoAdminMatch(line, admin) == 0

\* line 50: the length of the match of ^[一-龥]{1,2}<admin>, 0 for no match;
\* the greedy {1,2} tries two ideographs first
AdminMatchLen(line, admin) ==
    IF /\ Len(line) >= 2 + Len(admin)
       /\ IsIdeograph(line[1]) /\ IsIdeograph(line[2])
       /\ SubSeq(line, 3, 2 + Len(admin)) = admin
    THEN 2 + Len(admin)
    ELSE IF /\ Len(line) >= 1 + Len(admin)
            /\ IsIdeograph(line[1])
            /\ SubSeq(line, 2, 1 + Len(admin)) = admin
         THEN 1 + Len(admin)
         ELSE 0

\* a pass over the administrative levels that cuts nothing
KeepAdminUnits(line, i) == line

\* lines 49-52
RECURSIVE StripAdminUnits(_, _)
StripAdminUnits(line, i) ==
    IF i > Len(ADMIN_LEVELS)
    THEN line
    ELSE IF AdminMatchLen(line, ADMIN_LEVELS[i]) > 0
         THEN LET cut == lstrip(SliceFrom(line, AdminMatchLen(line, ADMIN_LEVELS[i])),
                                StripChars)
              IN  StripAdminUnits(cut, i + 1)
         ELSE StripAdminUnits(line, i + 1)

\* an iteration that strips the dynasties and nothing else
CleanIterationDynastiesOnly(line) == StripPrefixTokens(line, DYNASTIES, 1)

\* lines 41-57: the body of one iteration of the while loop
CleanIteration(line) ==
    LET no_dynasty == StripPrefixTokens(line, DYNASTIES, 1)
        no_admin == StripAdminUnits(no_dynasty, 1)
    IN  StripPrefixTokens(no_admin, PREFIX_VERBS, 1)

\* a loop condition that lets one more iteration through
LoopGuardInclusive(iteration) == iteration <= max_iterations

\* line 40: the loop condition
LoopGuard(iteration) == iteration < max_iterations

\* lines 40-63: the while loop from the given iteration count on
RECURSIVE CleanLoop(_, _)
CleanLoop(line, iteration) ==
    IF ~LoopGuard(iteration)
    THEN line
    ELSE LET original == line
             rewritten == CleanIteration(line)
         IN  IF original = rewritten
             THEN rewritten
             ELSE CleanLoop(rewritten, iteration + 1)

clean_line_start(line) == CleanLoop(StripLineNumber(line), 0)

\* lines 38-63: the value of iteration when the while loop ends
RECURSIVE CleanLoopIterations(_, _)
CleanLoopIterations(line, iteration) ==
    IF ~LoopGuard(iteration)
    THEN iteration
    ELSE LET original == line
             rewritten == CleanIteration(line)
         IN  IF original = rewritten
             THEN iteration
             ELSE CleanLoopIterations(rewritten, iteration + 1)

(***************************************************************************)
(* extract_valid_placename                                                 *)
(***************************************************************************)
\* a slice that ends before the suffix: cleaned_start[:idx]
PotentialNameWithoutSuffix(cleaned, suffix) == SliceTo(cleaned, find(cleaned, suffix))

\* lines 83-84: cleaned_start[:idx+1] for the first occurrence of the suffix
PotentialName(cleaned, suffix) == SliceTo(cleaned, find(cleaned, suffix) + 1)

\* a check of what follows the name that lets every name through
NoDirectionCheck(cleaned, suffix) == FALSE

\* lines 95-99: the text after the name starts with a directional word and
\* not with a separator
FollowedByDirection(cleaned, suffix) ==
    LET after_name == SliceFrom(cleaned, find(cleaned, suffix) + 1)
    IN  /\ after_name # << >>
        /\ Head(after_name) \notin SeparatorStart
        /\ StartsWithAny(after_name, DIRECTION_WORDS)

\* line 87
LengthOk(potential_name) == 2 <= Len(potential_name) /\ Len(potential_name) <= 3

\* line 91
StartsWithStopWord(name) == StartsWithAny(name, STOP_START_WORDS)

\* lines 80-99: the suffix is in the line and its candidate passes the checks
SuffixAccepted(cleaned, suffix) ==
    /\ contains(cleaned, suffix)
    /\ LengthOk(PotentialName(cleaned, suffix))
    /\ ~StartsWithStopWord(PotentialName(cleaned, suffix))
    /\ ~FollowedByDirection(cleaned, suffix)

\* lines 79-103: the positions in the list of the accepted suffixes
AcceptedSuffixes(cleaned) ==
    {i \in 1..Len(PLACE_SUFFIXES) : SuffixAccepted(cleaned, PLACE_SUFFIXES[i])}

\* lines 79-103: the candidate of the first accepted suffix in list order
FirstAccepted(cleaned) ==
    IF AcceptedSuffixes(cleaned) = {}
    THEN None
    ELSE PotentialName(
             cleaned,
             PLACE_SUFFIXES[CHOOSE i \in AcceptedSuffixes(cleaned) :
                                \A j \in AcceptedSuffixes(cleaned) : i <= j])

extract_valid_placename(line) ==
    LET cleaned_start == clean_line_start(line)
    IN  IF cleaned_start = << >> THEN None ELSE FirstAccepted(cleaned_start)

(***************************************************************************)
(* is_valid_placename and validate_and_resolve                             *)
(***************************************************************************)
is_valid_placename(name) ==
    /\ 2 <= Len(name) /\ Len(name) <= 4
    /\ ~StartsWithAny(name, STOP_START_WORDS)
    /\ EndsWithAny(name, PLACE_SUFFIXES)

\* the alternation (?:縣|州|...) at 0-based position pos of text: the length
\* of the first alternative that matches there, 0 for none
SuffixMatchLen(text, pos) ==
    LET matching == {i \in 1..Len(PLACE_SUFFIXES) :
                        startswith(SliceFrom(text, pos), PLACE_SUFFIXES[i])}
    IN  IF matching = {}
        THEN 0
        ELSE Len(PLACE_SUFFIXES[CHOOSE i \in matching : \A j \in matching : i <= j])

\* line 173: the length of the match of [一-龥]{1,2}(?:suffixes) at position
\* pos (0-based) of text, 0 for no match
PatternMatchLen(text, pos) ==
    IF /\ pos + 2 <= Len(text)
       /\ IsIdeograph(text[pos + 1]) /\ IsIdeograph(text[pos + 2])
       /\ SuffixMatchLen(text, pos + 2) > 0
    THEN 2 + SuffixMatchLen(text, pos + 2)
    ELSE IF /\ pos + 1 <= Len(text)
            /\ IsIdeograph(text[pos + 1])
            /\ SuffixMatchLen(text, pos + 1) > 0
         THEN 1 + SuffixMatchLen(text, pos + 1)
         ELSE 0

\* line 174: pattern.findall(text), the non-overlapping matches from the
\* left, scanning from position pos
RECURSIVE findall(_, _)
findall(text, pos) ==
    IF pos >= Len(text)
    THEN << >>
    ELSE LET n == PatternMatchLen(text, pos)
         IN  IF n > 0
             THEN <<SubSeq(text, pos + 1, pos + n)>> \o findall(text, pos + n)
             ELSE findall(text, pos + 1)

\* the candidates without the filter of lines 177-180
all_candidates(text) == findall(text, 0)

\* lines 177-180
valid_candidates(text) == SelectSeq(findall(text, 0), is_valid_placename)

InList(x, list) == \E i \in 1..Len(list) : list[i] = x

\* a selection that takes the first valid candidate whenever there is one
ResolvedNameAlways(original, text) ==
    LET valid == valid_candidates(text)
    IN  IF valid # << >> THEN valid[1] ELSE original

\* lines 183-185: the placename the record holds after the selection
ResolvedName(original, text) ==
    LET valid == valid_candidates(text)
    IN  IF valid # << >> /\ (~InList(original, valid) \/ ~is_valid_placename(original))
        THEN valid[1]
        ELSE original

\* a PlaceNameRecord (lines 8-13)
PlaceNameRecord(placename, text, source) ==
    [placename |-> placename, text |-> text, source |-> source]

\* None of Optional[PlaceNameRecord]
NoRecord == PlaceNameRecord(None, None, None)

\* lines 183-185: the record object after the selection, record.placename
\* assigned in place
record_after(record) ==
    [record EXCEPT !.placename = ResolvedName(record.placename, record.text)]

\* a resolution that also cuts the text down to what follows the name
validate_and_resolve_cut_text(record) ==
    LET placename == ResolvedName(record.placename, record.text)
    IN  IF ~is_valid_placename(placename)
        THEN NoRecord
        ELSE PlaceNameRecord(
                 placename,
                 SliceFrom(record.text, find(record.text, placename) + Len(placename)),
                 record.source)

\* lines 167-191: the value returned
validate_and_resolve(record) ==
    LET placename == ResolvedName(record.placename, record.text)
    IN  IF ~is_valid_placename(placename)
        THEN NoRecord
        ELSE PlaceNameRecord(placename, record.text, record.source)

(***************************************************************************)
(* Path.suffix, Path.stem and the sort key of extract_from_directory       *)
(***************************************************************************)
chDot == 46           \* "." of ".txt" (line 116)

\* str.rfind(".")
rfindDot(name) ==
    IF Occurrences(name, <<chDot>>) = {}
    THEN -1
    ELSE CHOOSE i \in Occurrences(name, <<chDot>>) :
             \A j \in Occurrences(name, <<chDot>>) : j <= i

\* pathlib: the last dot splits the name unless it is the first or the last
\* character
HasSuffix(name) == 0 < rfindDot(name) /\ rfindDot(name) < Len(name) - 1

path_suffix(name) == IF HasSuffix(name) THEN SliceFrom(name, rfindDot(name)) ELSE << >>

path_stem(name) == IF HasSuffix(name) THEN SliceTo(name, rfindDot(name)) ELSE name

\* ".txt" of line 116
TXT == <<chDot, 116, 120, 116>>

\* x.stem.isdigit(), for stems of ASCII characters
isdigit(s) == s # << >> /\ \A i \in 1..Len(s) : s[i] \in 48..57

\* int(s) of a string of ASCII digits
RECURSIVE int(_)
int(s) == IF s = << >> THEN 0 ELSE 10 * int(SubSeq(s, 1, Len(s) - 1)) + (s[Len(s)] - 48)

\* a < b for two str, by code points
RECURSIVE StrLess(_, _)
StrLess(a, b) ==
    IF b = << >> THEN FALSE
    ELSE IF a = << >> THEN TRUE
    ELSE IF Head(a) # Head(b) THEN Head(a) < Head(b)
    ELSE StrLess(Tail(a), Tail(b))

\* line 116: the files of the directory that the list comprehension keeps
TxtFiles(dir) == {f \in dir : path_suffix(f) = TXT}

\* line 117: the keys are of two types, int and str, which sorted() cannot
\* compare: comparing any int key with any str key raises TypeError
MixedKeys(fs) == \E f, g \in fs : isdigit(path_stem(f)) /\ ~isdigit(path_stem(g))

\* key(f) <= key(g) for two keys of the same type
KeyLeq(f, g) ==
    IF isdigit(path_stem(f))
    THEN int(path_stem(f)) <= int(path_stem(g))
    ELSE ~StrLess(path_stem(g), path_stem(f))

\* the orders sorted() can return: every file once, keys ascending; files of
\* equal key keep the order of iterdir(), which is arbitrary
SortedOrders(fs) ==
    {s \in [1..Cardinality(fs) -> fs] :
        /\ \A i, j \in 1..Cardinality(fs) : i # j => s[i] # s[j]
        /\ \A i, j \in 1..Cardinality(fs) : i < j => KeyLeq(s[i], s[j])}

(***************************************************************************)
(* aggregated_data: a dict, kept as the sequence of its items in insertion *)
(* order; an item is [key |-> <<name, source>>, texts |-> list of str]     *)
(***************************************************************************)
\* key in aggregated_data
HasKey(data, key) == \E i \in 1..Len(data) : data[i].key = key

\* the position of the item of key
ItemIndex(data, key) == CHOOSE i \in 1..Len(data) : data[i].key = key

\* an item added without looking for the key
AlwaysNewItem(data, key) == Append(data, [key |-> key, texts |-> << >>])

\* a dict that puts a new key before the keys it holds
EnsureKeyFront(data, key) ==
    IF HasKey(data, key) THEN data ELSE <<[key |-> key, texts |-> << >>]>> \o data

\* lines 142-143: if key not in aggregated_data: aggregated_data[key] = []
EnsureKey(data, key) ==
    IF HasKey(data, key) THEN data ELSE Append(data, [key |-> key, texts |-> << >>])

\* an append that stores nothing
DropText(data, key, text) == data

\* an append to the first list of the dict, whatever the key
AppendTextFirst(data, key, text) == [data EXCEPT ![1].texts = Append(@, text)]

\* aggregated_data[key].append(text), for a key of the dict
AppendText(data, key, text) ==
    [data EXCEPT ![ItemIndex(data, key)].texts = Append(@, text)]

\* a dict that gets the key only with the first content
AddContentIfAny(data, key, content) ==
    IF content # << >>
    THEN AppendText(EnsureKey(data, key), key, content)
    ELSE data

\* lines 142-145
AddContent(data, key, content) ==
    IF content # << >>
    THEN AppendText(EnsureKey(data, key), key, content)
    ELSE EnsureKey(data, key)

\* the list as it is, repeated values kept
keep_all(texts) == texts

\* dict.fromkeys(texts): the distinct values, each at its first position
RECURSIVE dict_fromkeys(_)
dict_fromkeys(texts) ==
    IF texts = << >>
    THEN << >>
    ELSE LET rest == dict_fromkeys(SubSeq(texts, 1, Len(texts) - 1))
             last == texts[Len(texts)]
         IN  IF InList(last, rest) THEN rest ELSE Append(rest, last)

\* " ".join(items)
RECURSIVE join(_)
join(items) ==
    IF items = << >> THEN << >>
    ELSE IF Len(items) = 1 THEN items[1]
    ELSE items[1] \o <<chSpace>> \o join(Tail(items))

\* line 155
combined_text(texts) == join(dict_fromkeys(texts))

\* a conversion that keeps every item
KeepsAnyRecord(text) == TRUE

\* line 157: if combined_text
KeepsRecord(text) == text # << >>

\* lines 133 and 147: the truth value of an Optional[str]
Truthy(s) == s # None /\ s # << >>

\* the content after the name with its leading separators left in
ContentAfterUnstripped(line, p_name) ==
    SliceFrom(line, find(line, p_name) + Len(p_name))

\* lines 137-138: the content after the name
ContentAfter(line, p_name) ==
    lstrip(SliceFrom(line, find(line, p_name) + Len(p_name)), StripChars)

(***************************************************************************)
(* Inputs.  The characters of the input lines that no token table holds,   *)
(* the lines a file may hold, and the names a directory may hold.          *)
(***************************************************************************)
InputChars ==
    [Jiang |-> 27743,    \* 江
     Liu   |-> 27969,    \* 流
     Wu    |-> 27494,    \* 武
     Chang |-> 26124,    \* 昌
     Yue   |-> 26352,    \* 曰
     One   |-> 49,       \* 1
     Two   |-> 50,       \* 2
     Zero  |-> 48,       \* 0
     a     |-> 97,
     m     |-> 109,
     d     |-> 100]

LineBlank == <<chSpace>>
\* 江縣
LineNameOnly == <<InputChars.Jiang, chXian>>
\* 江縣， 流
LineNameText == <<InputChars.Jiang, chXian, chComma, chSpace, InputChars.Liu>>
\* 流 between two spaces
LinePlain == <<chSpace, InputChars.Liu, chSpace>>
\* ，流
LineSeparatorFirst == <<chComma, InputChars.Liu>>
\* 武昌縣本漢舊縣
LineWuchang == <<InputChars.Wu, InputChars.Chang, chXian, chBen, chHan, chJiu, chXian>>
\* 晉改曰武昌
LineJinGai == <<chJin, chGai, InputChars.Yue, InputChars.Wu, InputChars.Chang>>
\* 漢置江陵縣屬南郡
LineJiangling ==
    <<chHan, chZhi, InputChars.Jiang, chLing, chXian, chShu, chNan, chJun>>
\* 其水南流
LineQiShui == <<chQi1, chShui, chNan, InputChars.Liu>>
\* 江縣郡江縣流
LineNameInPrefix ==
    <<InputChars.Jiang, chXian, chJun, InputChars.Jiang, chXian, InputChars.Liu>>
\* 1 江縣，流
LineNumbered ==
    <<InputChars.One, chSpace, InputChars.Jiang, chXian, chComma, InputChars.Liu>>

\* the lines a file may hold (each without its line break)
DocLines ==
    {LineBlank, LineNameOnly, LineNameText, LinePlain, LineSeparatorFirst,
     LineWuchang, LineJinGai, LineJiangling, LineQiShui, LineNameInPrefix,
     LineNumbered}

\* 2.txt, 10.txt, a.txt, 2.md
FileNames ==
    {<<InputChars.Two>> \o TXT,
     <<InputChars.One, InputChars.Zero>> \o TXT,
     <<InputChars.a>> \o TXT,
     <<InputChars.Two, chDot, InputChars.m, InputChars.d>>}

\* bounds: the files of a directory and the lines read in one run
MaxFiles == 2
MaxLines == 3

Directories == {dir \in SUBSET FileNames : Cardinality(dir) <= MaxFiles}

\* lines 126 and 131 on each line a file may hold: line.strip() and the
\* value of extract_valid_placename on it, computed once
Stripped == [raw \in DocLines |-> strip(raw)]
Located == [raw \in DocLines |-> extract_valid_placename(strip(raw))]

(***************************************************************************)
(* State                                                                   *)
(***************************************************************************)
VARIABLES
    pc,               \* where extract_from_directory is
    directory,        \* the names input_dir.iterdir() yields
    files,            \* line 115: the sorted list
    fidx,             \* the number of files the loop of line 120 has taken
    last_place,       \* line 122
    aggregated_data,  \* line 112
    cidx,             \* the number of items the loop of line 153 has taken
    records,          \* line 152
    error,            \* the exception that ended the call, "" for none
    nread,            \* the number of lines read so far
    input,            \* history: the lines read, [file, line]
    attributed,       \* history: the appends, [key, text, kind, at]
    converted,        \* history: for each record, the position of its item
    cl_pc, cl_input, cl_line, cl_iteration, cl_passes,  \* clean_line_start
    rv_pc, rv_input, rv_first, rv_second,               \* validate_and_resolve
    rv_record,        \* the fields of the record object passed to it
    lc_pc, lc_input, lc_cleaned, lc_idx, lc_result      \* extract_valid_placename

passVars ==
    <<pc, directory, files, fidx, last_place, aggregated_data, cidx, records,
      error, nread, input, attributed, converted>>
cleanVars == <<cl_pc, cl_input, cl_line, cl_iteration, cl_passes>>
resolveVars == <<rv_pc, rv_input, rv_first, rv_second, rv_record>>
locateVars == <<lc_pc, lc_input, lc_cleaned, lc_idx, lc_result>>
vars == <<passVars, cleanVars, resolveVars, locateVars>>

\* the state of a machine that a specification does not run
PassIdle ==
    /\ pc = "idle" /\ directory = {} /\ files = << >> /\ fidx = 0
    /\ last_place = None /\ aggregated_data = << >> /\ cidx = 0
    /\ records = << >> /\ error = "" /\ nread = 0
    /\ input = << >> /\ attributed = << >> /\ converted = << >>
CleanIdle ==
    /\ cl_pc = "idle" /\ cl_input = << >> /\ cl_line = << >>
    /\ cl_iteration = 0 /\ cl_passes = 0
ResolveIdle ==
    /\ rv_pc = "idle" /\ rv_input = NoRecord /\ rv_first = NoRecord
    /\ rv_second = NoRecord /\ rv_record = NoRecord
LocateIdle ==
    /\ lc_pc = "idle" /\ lc_input = << >> /\ lc_cleaned = << >>
    /\ lc_idx = 0 /\ lc_result = None

(***************************************************************************)
(* extract_from_directory                                                  *)
(***************************************************************************)
\* the name of the first file, whichever file the loop is at
FirstFileName == files[1]

\* fname.name of the file the loop of line 120 is at
fname == files[fidx]

\* a file opened with the name of the file before it still open
CarriedLastPlace == last_place

\* line 122: the value last_place has when a file is opened
InitialLastPlace == None

Init ==
    /\ pc = "list"
    /\ directory \in Directories
    /\ files = << >> /\ fidx = 0 /\ last_place = None
    /\ aggregated_data = << >> /\ cidx = 0 /\ records = << >>
    /\ error = "" /\ nread = 0
    /\ input = << >> /\ attributed = << >> /\ converted = << >>
    /\ CleanIdle /\ ResolveIdle /\ LocateIdle

\* lines 115-118, the keys being comparable
ListFiles ==
    /\ pc = "list"
    /\ ~MixedKeys(TxtFiles(directory))
    /\ \E order \in SortedOrders(TxtFiles(directory)) : files' = order
    /\ pc' = "files"
    /\ UNCHANGED <<directory, fidx, last_place, aggregated_data, cidx, records,
                   error, nread, input, attributed, converted>>
    /\ UNCHANGED <<cleanVars, resolveVars, locateVars>>

\* lines 115-118: sorted() compares an int key with a str key
ListFilesTypeError ==
    /\ pc = "list"
    /\ MixedKeys(TxtFiles(directory))
    /\ pc' = "raised"
    /\ error' = "TypeError"
    /\ UNCHANGED <<directory, files, fidx, last_place, aggregated_data, cidx,
                   records, nread, input, attributed, converted>>
    /\ UNCHANGED <<cleanVars, resolveVars, locateVars>>

\* lines 120-124: the next file is opened
OpenFile ==
    /\ pc = "files"
    /\ fidx < Len(files)
    /\ fidx' = fidx + 1
    /\ last_place' = InitialLastPlace
    /\ pc' = "lines"
    /\ UNCHANGED <<directory, files, aggregated_data, cidx, records, error,
                   nread, input, attributed, converted>>
    /\ UNCHANGED <<cleanVars, resolveVars, locateVars>>

\* what reading one more line leaves alone
ReadFrame(raw) ==
    /\ nread' = nread + 1
    /\ input' = Append(input, [file |-> fname, line |-> raw])
    /\ UNCHANGED <<pc, directory, files, fidx, cidx, records, converted>>
    /\ UNCHANGED <<cleanVars, resolveVars, locateVars>>

\* lines 126-128: a line that is empty after strip() is skipped
ReadBlank ==
    /\ pc = "lines"
    /\ nread < MaxLines
    /\ \E raw \in DocLines :
          /\ Stripped[raw] = << >>
          /\ ReadFrame(raw)
          /\ UNCHANGED <<last_place, aggregated_data, error, attributed>>

\* lines 131-145: a line with a place name
ReadCandidate ==
    /\ pc = "lines"
    /\ nread < MaxLines
    /\ \E raw \in DocLines :
          LET line == Stripped[raw]
              p_name == Located[raw]
              content == ContentAfter(line, p_name)
              key == <<p_name, fname>>
          IN  /\ line # << >>
              /\ Truthy(p_name)
              /\ last_place' = p_name
              /\ aggregated_data' = AddContent(aggregated_data, key, content)
              /\ attributed' =
                    IF content # << >>
                    THEN Append(attributed,
                                [key |-> key, text |-> content,
                                 kind |-> "residual", at |-> Len(input) + 1])
                    ELSE attributed
              /\ ReadFrame(raw)
              /\ UNCHANGED error

\* lines 147-149: a line without a place name, a name being open; a key that
\* the dict does not hold raises KeyError
ReadContinuation ==
    /\ pc = "lines"
    /\ nread < MaxLines
    /\ \E raw \in DocLines :
          LET line == Stripped[raw]
              key == <<last_place, fname>>
          IN  /\ line # << >>
              /\ ~Truthy(Located[raw])
              /\ Truthy(last_place)
              /\ nread' = nread + 1
              /\ input' = Append(input, [file |-> fname, line |-> raw])
              /\ IF HasKey(aggregated_data, key)
                 THEN /\ aggregated_data' = AppendText(aggregated_data, key, line)
                      /\ attributed' =
                            Append(attributed,
                                   [key |-> key, text |-> line,
                                    kind |-> "continuation", at |-> Len(input) + 1])
                      /\ UNCHANGED <<pc, error>>
                 ELSE /\ pc' = "raised"
                      /\ error' = "KeyError"
                      /\ UNCHANGED <<aggregated_data, attributed>>
              /\ UNCHANGED <<directory, files, fidx, last_place, cidx, records,
                             converted>>
              /\ UNCHANGED <<cleanVars, resolveVars, locateVars>>

\* lines 131-149: a line without a place name, no name being open, falls
\* through both branches
ReadDiscard ==
    /\ pc = "lines"
    /\ nread < MaxLines
    /\ \E raw \in DocLines :
          /\ Stripped[raw] # << >>
          /\ ~Truthy(Located[raw])
          /\ ~Truthy(last_place)
          /\ ReadFrame(raw)
          /\ UNCHANGED <<last_place, aggregated_data, error, attributed>>

\* line 125: the file has no more lines
EndOfFile ==
    /\ pc = "lines"
    /\ pc' = "files"
    /\ UNCHANGED <<directory, files, fidx, last_place, aggregated_data, cidx,
                   records, error, nread, input, attributed, converted>>
    /\ UNCHANGED <<cleanVars, resolveVars, locateVars>>

\* the item the loop of line 153 takes next
NextItem == aggregated_data[cidx + 1]

\* lines 153-162: an item with text becomes a record
EmitRecord ==
    /\ pc = "files"
    /\ fidx = Len(files)
    /\ cidx < Len(aggregated_data)
    /\ KeepsRecord(combined_text(NextItem.texts))
    /\ records' = Append(records,
                         PlaceNameRecord(NextItem.key[1],
                                         combined_text(NextItem.texts),
                                         NextItem.key[2]))
    /\ converted' = Append(converted, cidx + 1)
    /\ cidx' = cidx + 1
    /\ UNCHANGED <<pc, directory, files, fidx, last_place, aggregated_data,
                   error, nread, input, attributed>>
    /\ UNCHANGED <<cleanVars, resolveVars, locateVars>>

\* lines 153-157: an item without text is passed over
SkipEmptyItem ==
    /\ pc = "files"
    /\ fidx = Len(files)
    /\ cidx < Len(aggregated_data)
    /\ ~KeepsRecord(combined_text(NextItem.texts))
    /\ cidx' = cidx + 1
    /\ UNCHANGED <<pc, directory, files, fidx, last_place, aggregated_data,
                   records, error, nread, input, attributed, converted>>
    /\ UNCHANGED <<cleanVars, resolveVars, locateVars>>

\* line 164
Return ==
    /\ pc = "files"
    /\ fidx = Len(files)
    /\ cidx = Len(aggregated_data)
    /\ pc' = "done"
    /\ UNCHANGED <<directory, files, fidx, last_place, aggregated_data, cidx,
                   records, error, nread, input, attributed, converted>>
    /\ UNCHANGED <<cleanVars, resolveVars, locateVars>>

Next ==
    \/ ListFiles
    \/ ListFilesTypeError
    \/ OpenFile
    \/ ReadBlank
    \/ ReadCandidate
    \/ ReadContinuation
    \/ ReadDiscard
    \/ EndOfFile
    \/ EmitRecord
    \/ SkipEmptyItem
    \/ Return

Spec == Init /\ [][Next]_vars

(***************************************************************************)
(* clean_line_start, one step per statement of its loop                    *)
(***************************************************************************)
\* bounds: the repetitions of a prefix token and the length of what follows
MaxRepeat == 11
MaxTailLen == 2

\* the strings over an alphabet of length n, and of length at most n
RECURSIVE StringsOfLen(_, _)
StringsOfLen(alphabet, n) ==
    IF n = 0
    THEN {<< >>}
    ELSE {<<c>> \o s : c \in alphabet, s \in StringsOfLen(alphabet, n - 1)}

StringsUpTo(alphabet, n) == UNION {StringsOfLen(alphabet, k) : k \in 0..n}

\* token repeated k times
RECURSIVE Repeat(_, _)
Repeat(token, k) == IF k = 0 THEN << >> ELSE token \o Repeat(token, k - 1)

\* 漢 (a dynasty), 置 (a verb), 江郡 (a name and an administrative level)
RepeatedTokens == {<<chHan>>, <<chZhi>>, <<InputChars.Jiang, chJun>>}

\* 江 縣 漢 郡 置 ， 1 and the space
TailAlphabet ==
    {InputChars.Jiang, chXian, chHan, chJun, chZhi, chComma, InputChars.One,
     chSpace}

\* the lines of the scenarios: 漢置江陵縣屬南郡, 其水南流, 武昌縣本漢舊縣,
\* 晉改曰武昌
ScenarioLines == {LineJiangling, LineQiShui, LineWuchang, LineJinGai}

\* the lines given to clean_line_start: a prefix token repeated, then a
\* tail, and the lines of the scenarios
CleanInputs ==
    {Repeat(token, k) \o tail :
        token \in RepeatedTokens, k \in 0..MaxRepeat,
        tail \in StringsUpTo(TailAlphabet, MaxTailLen)}
      \cup ScenarioLines

InitClean ==
    /\ cl_pc = "start"
    /\ cl_input \in CleanInputs
    /\ cl_line = cl_input
    /\ cl_iteration = 0
    /\ cl_passes = 0
    /\ PassIdle /\ ResolveIdle /\ LocateIdle

\* lines 34-38
CleanStart ==
    /\ cl_pc = "start"
    /\ cl_line' = StripLineNumber(cl_line)
    /\ cl_iteration' = 0
    /\ cl_pc' = "while"
    /\ UNCHANGED <<cl_input, cl_passes>>
    /\ UNCHANGED <<passVars, resolveVars, locateVars>>

\* lines 40-63: an iteration that changes the line
CleanRewrite ==
    /\ cl_pc = "while"
    /\ LoopGuard(cl_iteration)
    /\ CleanIteration(cl_line) # cl_line
    /\ cl_line' = CleanIteration(cl_line)
    /\ cl_iteration' = cl_iteration + 1
    /\ cl_passes' = cl_passes + 1
    /\ UNCHANGED <<cl_pc, cl_input>>
    /\ UNCHANGED <<passVars, resolveVars, locateVars>>

\* lines 40-61 and 65: an iteration that changes nothing breaks the loop, and
\* the line is returned
CleanBreak ==
    /\ cl_pc = "while"
    /\ LoopGuard(cl_iteration)
    /\ CleanIteration(cl_line) = cl_line
    /\ cl_passes' = cl_passes + 1
    /\ cl_pc' = "returned"
    /\ UNCHANGED <<cl_input, cl_line, cl_iteration>>
    /\ UNCHANGED <<passVars, resolveVars, locateVars>>

\* lines 40 and 65: the loop condition fails, and the line is returned
CleanCap ==
    /\ cl_pc = "while"
    /\ ~LoopGuard(cl_iteration)
    /\ cl_pc' = "returned"
    /\ UNCHANGED <<cl_input, cl_line, cl_iteration, cl_passes>>
    /\ UNCHANGED <<passVars, resolveVars, locateVars>>

NextClean == CleanStart \/ CleanRewrite \/ CleanBreak \/ CleanCap

SpecClean == InitClean /\ [][NextClean]_vars

(***************************************************************************)
(* validate_and_resolve, applied to a record and then to its result        *)
(***************************************************************************)
\* bounds: the lengths of the name and of the text of the record
MaxNameLen == 3
MaxTextLen == 4

\* 江江江江縣, a name of five characters
LongName ==
    <<InputChars.Jiang, InputChars.Jiang, InputChars.Jiang, InputChars.Jiang, chXian>>

\* 江 縣 其
NameAlphabet == {InputChars.Jiang, chXian, chQi1}

\* 江 縣 其 ，
TextAlphabet == {InputChars.Jiang, chXian, chQi1, chComma}

ResolveInputs ==
    {PlaceNameRecord(name, text, <<InputChars.Two>> \o TXT) :
        name \in StringsUpTo(NameAlphabet, MaxNameLen) \cup {LongName},
        text \in StringsUpTo(TextAlphabet, MaxTextLen)}

InitResolve ==
    /\ rv_pc = "start"
    /\ rv_input \in ResolveInputs
    /\ rv_first = NoRecord
    /\ rv_second = NoRecord
    /\ rv_record = rv_input
    /\ PassIdle /\ CleanIdle /\ LocateIdle

\* r = validate_and_resolve(record)
ResolveFirst ==
    /\ rv_pc = "start"
    /\ rv_first' = validate_and_resolve(rv_input)
    /\ rv_record' = record_after(rv_input)
    /\ rv_pc' = "once"
    /\ UNCHANGED <<rv_input, rv_second>>
    /\ UNCHANGED <<passVars, cleanVars, locateVars>>

\* validate_and_resolve(r), for an r that is a record
ResolveAgain ==
    /\ rv_pc = "once"
    /\ rv_first # NoRecord
    /\ rv_second' = validate_and_resolve(rv_first)
    /\ rv_record' = record_after(rv_first)
    /\ rv_pc' = "twice"
    /\ UNCHANGED <<rv_input, rv_first>>
    /\ UNCHANGED <<passVars, cleanVars, locateVars>>

NextResolve == ResolveFirst \/ ResolveAgain

SpecResolve == InitResolve /\ [][NextResolve]_vars

(***************************************************************************)
(* extract_valid_placename, one step per suffix of its loop                *)
(***************************************************************************)
\* bound: the length of the line given to extract_valid_placename
MaxLineLen == 4

\* 江 縣 山 水 其 南 漢 ，
LineAlphabet ==
    {InputChars.Jiang, chXian, chShan, chShui, chQi1, chNan, chHan, chComma}

\* 江 郡 州 府 道 漢 山
AdminAlphabet ==
    {InputChars.Jiang, chJun, chZhou1, chFu, chDao, chHan, chShan}

\* 漢 as many times as the loop of clean_line_start has iterations, then
\* 置江江郡: the last iteration cuts 置 after its search for 江江郡
CapLine ==
    Repeat(<<chHan>>, max_iterations)
        \o <<chZhi, InputChars.Jiang, InputChars.Jiang, chJun>>

\* the lines given to extract_valid_placename
LocateInputs ==
    StringsUpTo(LineAlphabet, MaxLineLen)
        \cup StringsUpTo(AdminAlphabet, MaxLineLen)
        \cup ScenarioLines
        \cup {CapLine}

\* the suffixes in the order of PLACE_SUFFIXES, from the last to the first
SuffixAtReversed(i) == PLACE_SUFFIXES[Len(PLACE_SUFFIXES) + 1 - i]

\* line 79: the suffix the loop takes at its i-th iteration
SuffixAt(i) == PLACE_SUFFIXES[i]

InitLocate ==
    /\ lc_pc = "start"
    /\ lc_input \in LocateInputs
    /\ lc_cleaned = << >>
    /\ lc_idx = 0
    /\ lc_result = None
    /\ PassIdle /\ CleanIdle /\ ResolveIdle

\* what a step of the loop leaves alone
LocateFrame ==
    /\ UNCHANGED lc_input
    /\ UNCHANGED <<passVars, cleanVars, resolveVars>>

\* lines 74-76: the cleaned line is empty, None is returned
LocateEmpty ==
    /\ lc_pc = "start"
    /\ clean_line_start(lc_input) = << >>
    /\ lc_cleaned' = << >>
    /\ lc_result' = None
    /\ lc_pc' = "returned"
    /\ UNCHANGED lc_idx
    /\ LocateFrame

\* lines 74-79: the cleaned line is not empty, the loop begins
LocateClean ==
    /\ lc_pc = "start"
    /\ clean_line_start(lc_input) # << >>
    /\ lc_cleaned' = clean_line_start(lc_input)
    /\ lc_idx' = 1
    /\ lc_pc' = "for"
    /\ UNCHANGED lc_result
    /\ LocateFrame

\* the loop goes on to the next suffix
LocateContinue ==
    /\ lc_idx' = lc_idx + 1
    /\ UNCHANGED <<lc_pc, lc_cleaned, lc_result>>
    /\ LocateFrame

\* the loop is at a suffix
LocateAtSuffix == lc_pc = "for" /\ lc_idx <= Len(PLACE_SUFFIXES)

\* lines 80-81: the suffix is not in the line
LocateAbsent ==
    /\ LocateAtSuffix
    /\ ~contains(lc_cleaned, SuffixAt(lc_idx))
    /\ LocateContinue

\* lines 83-88: the length of the potential name is not 2 or 3
LocateRejectLength ==
    /\ LocateAtSuffix
    /\ contains(lc_cleaned, SuffixAt(lc_idx))
    /\ ~LengthOk(PotentialName(lc_cleaned, SuffixAt(lc_idx)))
    /\ LocateContinue

\* lines 83-92: the potential name starts with a stop word
LocateRejectStopWord ==
    /\ LocateAtSuffix
    /\ contains(lc_cleaned, SuffixAt(lc_idx))
    /\ LengthOk(PotentialName(lc_cleaned, SuffixAt(lc_idx)))
    /\ StartsWithStopWord(PotentialName(lc_cleaned, SuffixAt(lc_idx)))
    /\ LocateContinue

\* lines 83-99: a directional word follows the potential name
LocateRejectDirection ==
    /\ LocateAtSuffix
    /\ contains(lc_cleaned, SuffixAt(lc_idx))
    /\ LengthOk(PotentialName(lc_cleaned, SuffixAt(lc_idx)))
    /\ ~StartsWithStopWord(PotentialName(lc_cleaned, SuffixAt(lc_idx)))
    /\ FollowedByDirection(lc_cleaned, SuffixAt(lc_idx))
    /\ LocateContinue

\* lines 83-101: the potential name passes the checks and is returned
LocateAccept ==
    /\ LocateAtSuffix
    /\ contains(lc_cleaned, SuffixAt(lc_idx))
    /\ LengthOk(PotentialName(lc_cleaned, SuffixAt(lc_idx)))
    /\ ~StartsWithStopWord(PotentialName(lc_cleaned, SuffixAt(lc_idx)))
    /\ ~FollowedByDirection(lc_cleaned, SuffixAt(lc_idx))
    /\ lc_result' = PotentialName(lc_cleaned, SuffixAt(lc_idx))
    /\ lc_pc' = "returned"
    /\ UNCHANGED <<lc_cleaned, lc_idx>>
    /\ LocateFrame

\* line 103: the loop has taken every suffix, None is returned
LocateNone ==
    /\ lc_pc = "for"
    /\ lc_idx > Len(PLACE_SUFFIXES)
    /\ lc_result' = None
    /\ lc_pc' = "returned"
    /\ UNCHANGED <<lc_cleaned, lc_idx>>
    /\ LocateFrame

NextLocate ==
    \/ LocateEmpty
    \/ LocateClean
    \/ LocateAbsent
    \/ LocateRejectLength
    \/ LocateRejectStopWord
    \/ LocateRejectDirection
    \/ LocateAccept
    \/ LocateNone

SpecLocate == InitLocate /\ [][NextLocate]_vars

(***************************************************************************)
(* What the histories say: the contributions of a key, in order            *)
(***************************************************************************)
\* the texts attributed to key, in the order of their attribution
ContributionsOf(key) ==
    LET OfKey(e) == e.key = key
        entries == SelectSeq(attributed, OfKey)
    IN  [i \in 1..Len(entries) |-> entries[i].text]

\* the values of s, each once, in the order of their first occurrence
FirstOccurrences(s) ==
    LET firsts == {i \in 1..Len(s) : \A j \in 1..(i - 1) : s[j] # s[i]}
        nth(k) == CHOOSE i \in firsts : Cardinality({j \in firsts : j <= i}) = k
    IN  [k \in 1..Cardinality(firsts) |-> s[nth(k)]]

\* the items one after the other, a single space between two of them
RECURSIVE SpaceJoined(_)
SpaceJoined(items) ==
    IF items = << >> THEN << >>
    ELSE IF Len(items) = 1 THEN items[1]
    ELSE SpaceJoined(SubSeq(items, 1, Len(items) - 1))
             \o <<chSpace>> \o items[Len(items)]

\* the key of a record
KeyOf(record) == <<record.placename, record.source>>

\* the lines read so far from a file hold no place name
NoCandidateIn(file) ==
    \A j \in 1..Len(input) : input[j].file = file => ~Truthy(Located[input[j].line])

\* no name is open when line j has been read: no line of its file up to it
\* holds a place name
NoNameOpenAt(j) ==
    \A k \in 1..j : input[k].file = input[j].file => ~Truthy(Located[input[k].line])

(***************************************************************************)
(* Claims                                                                  *)
(***************************************************************************)

\* C1: every record of the extraction pass has a placename that
\* is_valid_placename accepts (2 to 4 characters, no stop word at its start, a
\* known suffix at its end); no record has an empty or invalid name.
C1_RecordNamesValid ==
    \A i \in 1..Len(records) :
        /\ records[i].placename # << >>
        /\ is_valid_placename(records[i].placename)

\* C1 witness: the pass has returned records with a name of two and a name of
\* three characters.
C1_Witness ==
    /\ pc = "done"
    /\ \E i \in 1..Len(records) : Len(records[i].placename) = 2
    /\ \E i \in 1..Len(records) : Len(records[i].placename) = 3

\* C2: re-resolution is run on every non-empty bucket before emission: each
\* returned record has the placename that validate_and_resolve yields for the
\* detected name and the accumulated text, and a bucket that
\* validate_and_resolve rejects gives no record.
C2_ResolvedBeforeEmission ==
    pc = "done" =>
        \A i \in 1..Len(records) :
            LET item == aggregated_data[converted[i]]
                resolved == validate_and_resolve(
                                PlaceNameRecord(item.key[1],
                                                SpaceJoined(FirstOccurrences(item.texts)),
                                                item.key[2]))
            IN  /\ resolved # NoRecord
                /\ records[i].placename = resolved.placename

\* C3: the text of the record of a key is the contributions attributed to the
\* key, each distinct value once, in the order of first attribution, joined
\* by a single space; no contribution is lost and none is there twice.
C3_TextIsContributions ==
    /\ \A i \in 1..Len(records) :
          records[i].text =
              SpaceJoined(FirstOccurrences(ContributionsOf(KeyOf(records[i]))))
    /\ pc = "done" =>
          \A e \in 1..Len(attributed) :
              \E i \in 1..Len(records) : KeyOf(records[i]) = attributed[e].key

\* C3 witness: a returned record whose key got three contributions, two of
\* them the same value.
C3_Witness ==
    /\ pc = "done"
    /\ \E i \in 1..Len(records) :
          /\ Len(ContributionsOf(KeyOf(records[i]))) = 3
          /\ Len(FirstOccurrences(ContributionsOf(KeyOf(records[i])))) = 2

\* C4: there is at most one bucket and at most one record per
\* (placename, source): a name detected again, right away or after other
\* names, goes to the bucket it has, and no second record is made.
C4_OneBucketPerKey ==
    /\ \A i, j \in 1..Len(aggregated_data) :
          i # j => aggregated_data[i].key # aggregated_data[j].key
    /\ \A i, j \in 1..Len(records) : i # j => KeyOf(records[i]) # KeyOf(records[j])

\* C4 witness: in one file a name was detected, then another name, then the
\* first name again, and the pass has returned the record of the first name.
C4_Witness ==
    /\ pc = "done"
    /\ \E i, j, k \in 1..Len(input) :
          /\ i < j /\ j < k
          /\ input[i].file = input[j].file /\ input[j].file = input[k].file
          /\ Truthy(Located[input[i].line]) /\ Truthy(Located[input[j].line])
          /\ Located[input[i].line] = Located[input[k].line]
          /\ Located[input[i].line] # Located[input[j].line]
          /\ \E r \in 1..Len(records) :
                KeyOf(records[r]) = <<Located[input[i].line], input[i].file>>

\* C5, as claimed: every contribution stored in a bucket, the residual of a
\* candidate line or a continuation line, is non-empty and does not begin
\* with one of the separators or a space.
C5_NoLeadingSeparator ==
    \A i \in 1..Len(aggregated_data) :
        \A t \in 1..Len(aggregated_data[i].texts) :
            /\ aggregated_data[i].texts[t] # << >>
            /\ Head(aggregated_data[i].texts[t]) \notin StripChars

\* C5, amended: every contribution stored in a bucket is non-empty and does
\* not begin with a space; the residual of a candidate line does not begin
\* with one of the separators either, while a continuation line is the whole
\* line as strip() leaves it, whatever its first character.
C5_ResidualsStripped ==
    /\ \A i \in 1..Len(aggregated_data) :
          aggregated_data[i].texts = ContributionsOf(aggregated_data[i].key)
    /\ \A e \in 1..Len(attributed) :
          /\ attributed[e].text # << >>
          /\ Head(attributed[e].text) # chSpace
          /\ attributed[e].kind = "residual" =>
                Head(attributed[e].text) \notin StripChars
          /\ attributed[e].kind = "continuation" =>
                attributed[e].text = strip(input[attributed[e].at].line)

\* C5 witness: a bucket holds a residual and a continuation line that begins
\* with the separator ，.
C5_Witness ==
    \E i \in 1..Len(aggregated_data) :
        /\ \E e \in 1..Len(attributed) :
              /\ attributed[e].key = aggregated_data[i].key
              /\ attributed[e].kind = "residual"
        /\ \E e \in 1..Len(attributed) :
              /\ attributed[e].key = aggregated_data[i].key
              /\ attributed[e].kind = "continuation"
              /\ Head(attributed[e].text) = chComma

\* C6: a line without a candidate, read while no name is open in its file,
\* makes no bucket and goes to no text; a file without any candidate, an
\* empty file too, gives no bucket and no record, and reading it raises no
\* error: the one error of the pass is the TypeError of the listing of
\* lines 115-118, raised before a file is opened.
C6_NothingWithoutName ==
    /\ \A j \in 1..Len(input) :
          NoNameOpenAt(j) => \A e \in 1..Len(attributed) : attributed[e].at # j
    /\ \A f \in 1..fidx :
          NoCandidateIn(files[f]) =>
              /\ \A i \in 1..Len(aggregated_data) : aggregated_data[i].key[2] # files[f]
              /\ \A i \in 1..Len(records) : records[i].source # files[f]
    /\ pc = "raised" => (error = "TypeError" /\ fidx = 0 /\ input = << >>)
    /\ (pc = "done" /\ \A f \in 1..Len(files) : NoCandidateIn(files[f])) =>
          (aggregated_data = << >> /\ records = << >>)

\* C6 witness: the pass has returned no record from two files, the first with
\* a line that is not blank, the second empty.
C6_Witness ==
    /\ pc = "done"
    /\ Len(files) = 2
    /\ records = << >>
    /\ \E j \in 1..Len(input) : input[j].file = files[1] /\ Stripped[input[j].line] # << >>
    /\ \A j \in 1..Len(input) : input[j].file # files[2]

\* C7: re-resolution is idempotent: validate_and_resolve applied to the
\* record it returned returns a record of the same placename, text and
\* source.
C7_ResolveIdempotent ==
    rv_pc = "twice" =>
        /\ rv_second # NoRecord
        /\ rv_second.placename = rv_first.placename
        /\ rv_second.text = rv_first.text
        /\ rv_second.source = rv_first.source

\* C7 witness: the first application gave the record another name, and the
\* second application has been made.
C7_Witness ==
    /\ rv_pc = "twice"
    /\ rv_first.placename # rv_input.placename

\* the line after n iterations of the rewrite loop
RECURSIVE Rewritten(_, _)
Rewritten(line, n) ==
    IF n = 0
    THEN line
    ELSE LET before == Rewritten(line, n - 1) IN CleanIteration(before)

\* C8: clean_line_start ends on every line after at most 10 iterations of its
\* loop (cl_passes counts them, and every step of the loop adds one or
\* returns), and at the cap it returns the line as rewritten so far, an
\* ordinary result.
C8_CleanTerminates ==
    /\ [](/\ cl_iteration <= max_iterations
          /\ cl_passes <= max_iterations
          /\ cl_pc = "returned" =>
                /\ cl_line = Rewritten(StripLineNumber(cl_input), cl_iteration)
                /\ cl_line = clean_line_start(cl_input))
    /\ [][cl_pc = "while" =>
              \/ cl_pc' = "returned"
              \/ cl_iteration' = cl_iteration + 1 /\ cl_passes' = cl_passes + 1]_vars

\* C8 witness: the loop has returned at the cap with a line that a further
\* iteration would rewrite.
C8_Witness ==
    /\ cl_pc = "returned"
    /\ cl_iteration = max_iterations
    /\ CleanIteration(cl_line) # cl_line

\* the number of records made from the item at position b
RecordsOf(b) == Cardinality({i \in 1..Len(converted) : converted[i] = b})

\* C10: a bucket becomes a record once and only with text: a name with no
\* residual and no continuation line gives no record, a bucket with a
\* contribution gives exactly one.
C10_ConvertedOnce ==
    /\ Len(converted) = Len(records)
    /\ \A i \in 1..Len(records) :
          /\ KeyOf(records[i]) = aggregated_data[converted[i]].key
          /\ records[i].text # << >>
    /\ \A b \in 1..Len(aggregated_data) : RecordsOf(b) <= 1
    /\ pc = "done" =>
          \A b \in 1..Len(aggregated_data) :
              RecordsOf(b) =
                  IF ContributionsOf(aggregated_data[b].key) # << >> THEN 1 ELSE 0

\* C10 witness: the pass has returned with a bucket that got no contribution
\* and a bucket that got one.
C10_Witness ==
    /\ pc = "done"
    /\ \E b \in 1..Len(aggregated_data) : ContributionsOf(aggregated_data[b].key) = << >>
    /\ \E b \in 1..Len(aggregated_data) : ContributionsOf(aggregated_data[b].key) # << >>

\* 江陵縣屬南郡
JianglingCleaned == <<InputChars.Jiang, chLing, chXian, chShu, chNan, chJun>>

\* 江陵縣
JianglingName == <<InputChars.Jiang, chLing, chXian>>

\* C11: scenario A: clean_line_start turns 漢置江陵縣屬南郡 into 江陵縣屬南郡,
\* the dynasty 漢 cut first and the verb 置 after it in the one iteration
\* that rewrites, and extract_valid_placename returns 江陵縣 for the line.
C11_ScenarioA ==
    cl_input = LineJiangling =>
        /\ StripPrefixTokens(LineJiangling, DYNASTIES, 1) = Tail(LineJiangling)
        /\ StripAdminUnits(Tail(LineJiangling), 1) = Tail(LineJiangling)
        /\ StripPrefixTokens(Tail(LineJiangling), PREFIX_VERBS, 1) = JianglingCleaned
        /\ (cl_pc = "while" /\ cl_iteration = 0) => cl_line = LineJiangling
        /\ cl_iteration >= 1 => cl_line = JianglingCleaned
        /\ cl_pc = "returned" =>
              /\ cl_line = JianglingCleaned
              /\ cl_iteration = 1
              /\ extract_valid_placename(cl_input) = JianglingName

\* C11 witness: clean_line_start has returned for 漢置江陵縣屬南郡.
C11_Witness ==
    /\ cl_input = LineJiangling
    /\ cl_pc = "returned"

\* 武昌縣
WuchangXian == <<InputChars.Wu, InputChars.Chang, chXian>>

\* 武昌
WuchangBare == <<InputChars.Wu, InputChars.Chang>>

\* 本漢舊縣
WuchangResidual == <<chBen, chHan, chJiu, chXian>>

\* the lines 武昌縣本漢舊縣 and 晉改曰武昌 were read at j and j + 1 from one file
ScenarioCAt(j) ==
    /\ j + 1 <= Len(input)
    /\ input[j].line = LineWuchang
    /\ input[j + 1].line = LineJinGai
    /\ input[j].file = input[j + 1].file

\* C12, as claimed: scenario C: of the consecutive lines 武昌縣本漢舊縣 and
\* 晉改曰武昌 of one file, the first is attributed to the key (武昌縣, source)
\* and the second to the key (武昌, source), a bucket of its own.
C12_SecondLineOwnBucket ==
    \A j \in 1..Len(input) :
        ScenarioCAt(j) =>
            /\ \E e \in 1..Len(attributed) :
                  /\ attributed[e].at = j
                  /\ attributed[e].key = <<WuchangXian, input[j].file>>
            /\ \E i \in 1..Len(aggregated_data) :
                  aggregated_data[i].key = <<WuchangBare, input[j].file>>
            /\ \E e \in 1..Len(attributed) :
                  /\ attributed[e].at = j + 1
                  /\ attributed[e].key = <<WuchangBare, input[j].file>>

\* C12, amended: scenario C: both lines go to the bucket of
\* (武昌縣, source), the first with its residual 本漢舊縣 and the second whole
\* as a continuation line, for 晉改曰武昌 holds no place name; no bucket is
\* ever named 武昌.
C12_BothLinesOneBucket ==
    /\ \A j \in 1..Len(input) :
          ScenarioCAt(j) =>
              LET key == <<WuchangXian, input[j].file>>
              IN  /\ \E e \in 1..Len(attributed) :
                        attributed[e] = [key |-> key, text |-> WuchangResidual,
                                         kind |-> "residual", at |-> j]
                  /\ \E e \in 1..Len(attributed) :
                        attributed[e] = [key |-> key, text |-> LineJinGai,
                                         kind |-> "continuation", at |-> j + 1]
                  /\ \E i \in 1..Len(aggregated_data) :
                        /\ aggregated_data[i].key = key
                        /\ \E t \in 1..(Len(aggregated_data[i].texts) - 1) :
                              /\ aggregated_data[i].texts[t] = WuchangResidual
                              /\ aggregated_data[i].texts[t + 1] = LineJinGai
    /\ \A i \in 1..Len(aggregated_data) : aggregated_data[i].key[1] # WuchangBare

\* C12 witness: the two lines of scenario C were read one after the other
\* from one file.
C12_Witness == \E j \in 1..Len(input) : ScenarioCAt(j)

\* C13: the source of every bucket key and of every record is the name of
\* the file its lines were read from with the extension removed (the stem).
C13_SourceIsStem ==
    /\ \A e \in 1..Len(attributed) :
          attributed[e].key[2] = path_stem(input[attributed[e].at].file)
    /\ \A i \in 1..Len(aggregated_data) :
          \E f \in 1..Len(files) : aggregated_data[i].key[2] = path_stem(files[f])
    /\ \A i \in 1..Len(records) :
          \E f \in 1..Len(files) : records[i].source = path_stem(files[f])

\* what follows the name at the head of the normalized line, the leading
\* separators and spaces stripped
ResidualAfterMatch(raw) ==
    LET cleaned == clean_line_start(Stripped[raw])
    IN  lstrip(SliceFrom(cleaned, Len(Located[raw])), StripChars)

\* C14: for a line with a candidate, the content appended to the bucket is
\* what follows the candidate where the locator matched it, at the head of
\* the normalized line, with the leading ，。； and spaces stripped; so it is
\* too for a line that holds the candidate in the prefix that normalization
\* removes.
C14_ResidualFollowsMatch ==
    \A j \in 1..Len(input) :
        Truthy(Located[input[j].line]) =>
            IF ResidualAfterMatch(input[j].line) = << >>
            THEN \A e \in 1..Len(attributed) : attributed[e].at # j
            ELSE \E e \in 1..Len(attributed) :
                    /\ attributed[e].at = j
                    /\ attributed[e].kind = "residual"
                    /\ attributed[e].text = ResidualAfterMatch(input[j].line)

\* the step reads a line that is not blank and holds no place name, a name
\* being open
ContinuationStep ==
    /\ Len(input') = Len(input) + 1
    /\ Stripped[input'[Len(input')].line] # << >>
    /\ ~Truthy(Located[input'[Len(input')].line])
    /\ Truthy(last_place)

\* C15: a line that is not blank and holds no candidate, read while a name is
\* open, is appended whole to the bucket of (the open name, source), and the
\* open name and every other bucket stay as they are; within a file an open
\* name is never reset to None.
C15_ContinuationFrame ==
    [][/\ ContinuationStep =>
             LET line == Stripped[input'[Len(input')].line]
                 key == <<last_place, files[fidx]>>
             IN  /\ pc' = "lines"
                 /\ last_place' = last_place
                 /\ \E i \in 1..Len(aggregated_data) : aggregated_data[i].key = key
                 /\ Len(aggregated_data') = Len(aggregated_data)
                 /\ \A i \in 1..Len(aggregated_data) :
                       aggregated_data'[i] =
                           IF aggregated_data[i].key = key
                           THEN [key |-> key,
                                 texts |-> Append(aggregated_data[i].texts, line)]
                           ELSE aggregated_data[i]
       /\ (fidx' = fidx /\ Truthy(last_place)) => Truthy(last_place')]_vars

\* C15 witness: a continuation line went to the second of two buckets.
C15_Witness ==
    /\ Len(aggregated_data) >= 2
    /\ \E e \in 1..Len(attributed) :
          /\ attributed[e].kind = "continuation"
          /\ attributed[e].key = aggregated_data[2].key
          /\ attributed[e].key[2] = aggregated_data[1].key[2]

\* C16: the aggregation of a file is isolated from the other files: the open
\* name is None when a file is opened, a line without a candidate goes only
\* to a name found earlier in its own file, and reading the lines of a file
\* changes no bucket whose key has the source of another file and makes no
\* bucket with such a key.
C16_FilesIsolated ==
    /\ [](\A e \in 1..Len(attributed) :
              /\ attributed[e].key[2] = input[attributed[e].at].file
              /\ \E k \in 1..attributed[e].at :
                    /\ input[k].file = input[attributed[e].at].file
                    /\ Located[input[k].line] = attributed[e].key[1])
    /\ [][/\ fidx' # fidx => last_place' = None
          /\ pc = "lines" =>
                /\ Len(aggregated_data') >= Len(aggregated_data)
                /\ \A i \in 1..Len(aggregated_data) :
                      aggregated_data[i].key[2] # files[fidx] =>
                          aggregated_data'[i] = aggregated_data[i]
                /\ \A i \in (Len(aggregated_data) + 1)..Len(aggregated_data') :
                      aggregated_data'[i].key[2] = files[fidx]]_vars

\* C16 witness: a name was opened and given text in the first file, and the
\* second file began with a line without a candidate, which went nowhere.
C16_Witness ==
    /\ Len(files) = 2
    /\ \E e \in 1..Len(attributed) : attributed[e].key[2] = files[1]
    /\ \E j \in 1..Len(input) :
          /\ input[j].file = files[2]
          /\ Stripped[input[j].line] # << >>
          /\ ~Truthy(Located[input[j].line])
          /\ NoNameOpenAt(j)
          /\ \A e \in 1..Len(attributed) : attributed[e].at # j

\* the first characters of the stop words and the directional words, the
\* suffix characters: every token of the three lists is one character
StopChars == {STOP_START_WORDS[i][1] : i \in 1..Len(STOP_START_WORDS)}
DirectionChars == {DIRECTION_WORDS[i][1] : i \in 1..Len(DIRECTION_WORDS)}
SuffixChars == {PLACE_SUFFIXES[i][1] : i \in 1..Len(PLACE_SUFFIXES)}

\* C17: a candidate that extract_valid_placename returns is the head of the
\* normalized line up to and including the first occurrence of a suffix, is
\* 2 or 3 characters long, does not start with a stop word, and is not
\* followed at once by one of 南 北 西 东 治 界; 其水南流, which starts with the
\* stop word 其, gives no candidate.
C17_CandidateWellFormed ==
    /\ (lc_pc = "returned" /\ lc_result # None) =>
          LET cleaned == clean_line_start(lc_input)
              n == Len(lc_result)
          IN  /\ n \in {2, 3}
              /\ n <= Len(cleaned)
              /\ lc_result = SubSeq(cleaned, 1, n)
              /\ lc_result[n] \in SuffixChars
              /\ \A k \in 1..(n - 1) : cleaned[k] # lc_result[n]
              /\ lc_result[1] \notin StopChars
              /\ n < Len(cleaned) => cleaned[n + 1] \notin DirectionChars
    /\ (lc_pc = "returned" /\ lc_input = LineQiShui) => lc_result = None
    /\ (lc_pc = "returned" /\ lc_cleaned # << >> /\ lc_cleaned[1] \in StopChars) =>
          lc_result = None

\* C17 witness: a candidate of three characters was returned from a line
\* that normalization changed and that goes on after the candidate.
C17_Witness ==
    /\ lc_pc = "returned"
    /\ lc_result # None
    /\ Len(lc_result) = 3
    /\ lc_cleaned # lc_input
    /\ Len(lc_cleaned) > 3

\* the positions in PLACE_SUFFIXES of the suffixes whose candidate in the
\* line passes the checks
AcceptedAt(cleaned) ==
    {i \in 1..Len(PLACE_SUFFIXES) :
        /\ contains(cleaned, PLACE_SUFFIXES[i])
        /\ LengthOk(PotentialName(cleaned, PLACE_SUFFIXES[i]))
        /\ ~StartsWithStopWord(PotentialName(cleaned, PLACE_SUFFIXES[i]))
        /\ ~FollowedByDirection(cleaned, PLACE_SUFFIXES[i])}

\* C18: extract_valid_placename takes the suffixes in the order of
\* PLACE_SUFFIXES and returns the candidate of the first one in that order
\* whose candidate passes the checks, also when a later suffix has a shorter
\* accepted candidate; a rejected candidate does not end the search; None is
\* returned exactly when no suffix has an accepted candidate.
C18_FirstSuffixInOrderWins ==
    lc_pc = "returned" =>
        LET cleaned == clean_line_start(lc_input)
            accepted == AcceptedAt(cleaned)
        IN  /\ lc_result = None <=> (cleaned = << >> \/ accepted = {})
            /\ (cleaned # << >> /\ accepted # {}) =>
                  \E i \in accepted :
                      /\ \A j \in accepted : i <= j
                      /\ lc_idx = i
                      /\ lc_result = PotentialName(cleaned, PLACE_SUFFIXES[i])
            /\ (cleaned # << >> /\ accepted = {}) => lc_idx = Len(PLACE_SUFFIXES) + 1
            /\ lc_result = extract_valid_placename(lc_input)

\* C18 witness: the candidate returned is that of a suffix tried after a
\* suffix of the line whose candidate was rejected, and a suffix later in the
\* list has a shorter accepted candidate.
C18_Witness ==
    /\ lc_pc = "returned"
    /\ lc_result # None
    /\ \E j \in 1..(lc_idx - 1) : contains(lc_cleaned, PLACE_SUFFIXES[j])
    /\ \E k \in AcceptedAt(lc_cleaned) :
          /\ k > lc_idx
          /\ Len(PotentialName(lc_cleaned, PLACE_SUFFIXES[k])) < Len(lc_result)

\* the line starts with one or two ideographs and an administrative level
\* after them
StartsWithAdminUnit(line) ==
    \E i \in 1..Len(ADMIN_LEVELS) :
        \E n \in {1, 2} :
            /\ Len(line) >= n + 1
            /\ \A k \in 1..n : IsIdeograph(line[k])
            /\ line[n + 1] = ADMIN_LEVELS[i][1]

\* the line starts with one of the tokens
StartsWithToken(line, tokens) ==
    \E i \in 1..Len(tokens) :
        /\ Len(tokens[i]) <= Len(line)
        /\ SubSeq(line, 1, Len(tokens[i])) = tokens[i]

\* C19: when clean_line_start returns before the cap of 10 iterations, no
\* rewrite rule applies to what it returns: the line starts with no dynasty,
\* with no one or two ideographs followed by an administrative level, and
\* with no verb prefix.
C19_FixedPointBeforeCap ==
    (cl_pc = "returned" /\ cl_iteration < max_iterations) =>
        /\ ~StartsWithToken(cl_line, DYNASTIES)
        /\ ~StartsWithAdminUnit(cl_line)
        /\ ~StartsWithToken(cl_line, PREFIX_VERBS)

\* C19 witness: clean_line_start has returned a line that is not empty after
\* rewriting it in two iterations or more, the cap not reached.
C19_Witness ==
    /\ cl_pc = "returned"
    /\ cl_iteration >= 2
    /\ cl_iteration < max_iterations
    /\ cl_line # << >>

\* the valid candidates of the text, from the left
ValidIn(text) == SelectSeq(findall(text, 0), is_valid_placename)

\* the name is to be replaced: the text has a valid candidate, and the name
\* is not among the valid candidates or is not valid
ToBeReplaced(original, text) ==
    /\ ValidIn(text) # << >>
    /\ \/ \A i \in 1..Len(ValidIn(text)) : ValidIn(text)[i] # original
       \/ ~is_valid_placename(original)

\* C20: validate_and_resolve replaces the name of the record by the
\* left-most valid candidate of the text exactly when the text has a valid
\* candidate and the name is not among the valid candidates or is not valid;
\* otherwise the name stays, and the record is returned if the name is valid.
C20_ReplacedExactlyWhen ==
    rv_pc \in {"once", "twice"} =>
        LET original == rv_input.placename
            text == rv_input.text
        IN  /\ ToBeReplaced(original, text) =>
                  /\ rv_first # NoRecord
                  /\ rv_first.placename = ValidIn(text)[1]
                  /\ rv_first.placename # original
                  /\ \E i \in 1..Len(findall(text, 0)) :
                        /\ findall(text, 0)[i] = rv_first.placename
                        /\ \A j \in 1..(i - 1) :
                              ~is_valid_placename(findall(text, 0)[j])
            /\ ~ToBeReplaced(original, text) =>
                  IF is_valid_placename(original)
                  THEN rv_first # NoRecord /\ rv_first.placename = original
                  ELSE rv_first = NoRecord
            /\ rv_first # NoRecord =>
                  /\ rv_first.text = text
                  /\ rv_first.source = rv_input.source

\* C20 witness: the text has two valid candidates that differ, and the name
\* was replaced by the first of them.
C20_Witness ==
    /\ rv_pc = "once"
    /\ ToBeReplaced(rv_input.placename, rv_input.text)
    /\ Len(ValidIn(rv_input.text)) >= 2
    /\ ValidIn(rv_input.text)[1] # ValidIn(rv_input.text)[2]
    /\ rv_first.placename = ValidIn(rv_input.text)[1]

\* the substrings of the text that are one or two ideographs and a suffix
\* after them, wherever they start
PatternSubstrings(text) ==
    {SubSeq(text, span[1], span[1] + span[2]) :
        span \in {sp \in (1..Len(text)) \X {1, 2} :
                     /\ sp[1] + sp[2] <= Len(text)
                     /\ \A q \in sp[1]..(sp[1] + sp[2] - 1) : IsIdeograph(text[q])
                     /\ \E i \in 1..Len(PLACE_SUFFIXES) :
                           PLACE_SUFFIXES[i] = <<text[sp[1] + sp[2]]>>}}

\* C21: the candidates that validate_and_resolve examines hold every
\* substring of the text that is one or two ideographs followed by a suffix,
\* also one that overlaps another match, as the match of two characters
\* inside a match of three that starts one position earlier.
C21_AllSubstringsExamined ==
    rv_pc = "once" =>
        \A candidate \in PatternSubstrings(rv_input.text) :
            InList(candidate, findall(rv_input.text, 0))

\* C22: validate_and_resolve returns None exactly when none of the candidates
\* it found in the text (line 174) is valid and the name of the record is
\* not valid; when it returns None it has left the placename, the text and
\* the source of the record as they were; a record it returns has a valid
\* placename.
C22_NoneExactlyWhen ==
    rv_pc = "once" =>
        /\ rv_first = NoRecord <=>
              /\ \A i \in 1..Len(findall(rv_input.text, 0)) :
                    ~is_valid_placename(findall(rv_input.text, 0)[i])
              /\ ~is_valid_placename(rv_input.placename)
        /\ rv_first = NoRecord => rv_record = rv_input
        /\ rv_first # NoRecord =>
              /\ is_valid_placename(rv_first.placename)
              /\ rv_first = rv_record

\* C22 witness: validate_and_resolve has returned None for a text that holds
\* candidates, none of them valid.
C22_Witness ==
    /\ rv_pc = "once"
    /\ rv_first = NoRecord
    /\ findall(rv_input.text, 0) # << >>

\* the key was detected: a line of its file holds its name
Detected(key) ==
    \E j \in 1..Len(input) :
        input[j].file = key[2] /\ Located[input[j].line] = key[1]

\* the position in the lines read of the first line that holds the name of
\* the key in the file of the key
FirstDetectedAt(key) ==
    CHOOSE j \in 1..Len(input) :
        /\ input[j].file = key[2] /\ Located[input[j].line] = key[1]
        /\ \A k \in 1..(j - 1) :
              ~(input[k].file = key[2] /\ Located[input[k].line] = key[1])

\* the position of the file in the order the files are read in
FileIndex(file) == CHOOSE f \in 1..Len(files) : files[f] = file

\* C23: the records are in the order in which their keys were first made:
\* the files in the order they are read in, and in a file the names in the
\* order of their first detection, wherever later contributions went; a
\* bucket without text is passed over and the others keep their order.
C23_RecordsInDetectionOrder ==
    /\ \A i \in 1..Len(records) : Detected(KeyOf(records[i]))
    /\ \A i, k \in 1..Len(records) :
          i < k =>
              /\ FirstDetectedAt(KeyOf(records[i])) < FirstDetectedAt(KeyOf(records[k]))
              /\ FileIndex(records[i].source) <= FileIndex(records[k].source)
    /\ pc = "done" =>
          \A e \in 1..Len(attributed) :
              \E i \in 1..Len(records) : KeyOf(records[i]) = attributed[e].key

\* C23 witness: two records were returned, and the bucket of the first got a
\* contribution after the bucket of the second was made.
C23_Witness ==
    /\ pc = "done"
    /\ Len(records) = 2
    /\ \E e \in 1..Len(attributed) :
          /\ attributed[e].key = KeyOf(records[1])
          /\ attributed[e].at > FirstDetectedAt(KeyOf(records[2]))

\* C24: for every set of .txt names in the directory the files are taken in
\* a sorted order, a stem of digits at its integer value and another stem
\* lexically, and no error is raised, also when stems of digits and other
\* stems are together in the directory.
C24_SortedWithoutError ==
    /\ pc # "raised"
    /\ error = ""
    /\ pc \notin {"list", "idle"} =>
          /\ {files[f] : f \in 1..Len(files)} = TxtFiles(directory)
          /\ Len(files) = Cardinality(TxtFiles(directory))
          /\ \A i, k \in 1..Len(files) : i < k => KeyLeq(files[i], files[k])

\* the characters that are an administrative level and a suffix: 郡 州 府 道
AdminSuffixChars ==
    {ADMIN_LEVELS[i][1] : i \in 1..Len(ADMIN_LEVELS)} \cap SuffixChars

\* the line is made of ideographs (一 to 龥) only
OnlyIdeographs(line) == \A k \in 1..Len(line) : IsIdeograph(line[k])

\* the loop of clean_line_start ends on the line before the cap
EndsBeforeCap(line) ==
    CleanLoopIterations(StripLineNumber(line), 0) < max_iterations

\* C25: for a line of ideographs only on which the normalization ends before
\* the cap of 10 iterations, extract_valid_placename returns no candidate
\* that ends in 郡, 州, 府 or 道: the normalized line does not start with one
\* or two ideographs and such a token, for the normalizer cuts that head.
C25_NoAdminSuffixCandidate ==
    (lc_pc = "returned" /\ OnlyIdeographs(lc_input) /\ EndsBeforeCap(lc_input)) =>
        /\ ~StartsWithAdminUnit(lc_cleaned)
        /\ lc_result # None => lc_result[Len(lc_result)] \notin AdminSuffixChars

\* C25 witness: a line of ideographs that starts with an ideograph and 郡, 州,
\* 府 or 道 was normalized before the cap, and a candidate was returned.
C25_Witness ==
    /\ lc_pc = "returned"
    /\ OnlyIdeographs(lc_input)
    /\ EndsBeforeCap(lc_input)
    /\ Len(lc_input) >= 2
    /\ lc_input[2] \in AdminSuffixChars
    /\ lc_result # None

\* C26: at every step of the loop over the lines of a file, if a name is
\* open (last_place) then the dict holds the key (last_place, the file), so
\* the append of a continuation line finds its bucket and no KeyError is
\* raised, whatever the lines and the files.
C26_OpenNameHasBucket ==
    /\ (pc = "lines" /\ Truthy(last_place)) =>
          \E i \in 1..Len(aggregated_data) :
              aggregated_data[i].key = <<last_place, files[fidx]>>
    /\ error # "KeyError"
    /\ \A e \in 1..Len(attributed) :
          \E i \in 1..Len(aggregated_data) : aggregated_data[i].key = attributed[e].key

\* C26 witness: a continuation line went to a bucket that a line holding the
\* name and nothing else had made.
C26_Witness ==
    \E e \in 1..Len(attributed) :
        /\ attributed[e].kind = "continuation"
        /\ \A r \in 1..Len(attributed) :
              attributed[r].key = attributed[e].key => attributed[r].kind = "continuation"
====
